---- MODULE Spec2Model ----
(***************************************************************************)
(* State-machine model of the wizard GUI in src/GUI/GUI.py: the step-by-   *)
(* step feature collector (user_inputs, current_index, feature_entry), the *)
(* four stacked frames, run_prediction with its two model calls, and the   *)
(* append-only log GUIResults.csv.                                         *)
(*                                                                         *)
(* Each button callback is one action.  A callback that raises is caught   *)
(* by Tk's callback wrapper: the statements before the raise have taken    *)
(* effect, the rest of the callback is skipped and the main loop goes on.  *)
(* A button is pressed only while its frame is the raised one.             *)
(***************************************************************************)
EXTENDS Integers, Sequences, FiniteSets, TLC

\* ------------------------------------------------------------------ bounds
\* Number of molecular descriptors of all_features kept in the model.
NumFeatures == 2
\* Largest number of lines GUIResults.csv may hold before appends stop.
MaxLines == 4
\* Probabilities are the grid k / ProbScale, k \in 0..ProbScale.
ProbScale == 2

\* -------------------------------------------------------- text primitives
\* A Python str is a sequence of text pieces: typed text is kept character
\* by character, a literal of the program as one piece.
Unknown == <<"Unknown">>

\* str.strip(): drop leading and trailing whitespace.
RECURSIVE LStrip(_)
LStrip(s) == IF s # <<>> /\ Head(s) = " " THEN LStrip(Tail(s)) ELSE s

RECURSIVE RStrip(_)
RStrip(s) ==
    IF s # <<>> /\ s[Len(s)] = " " THEN RStrip(SubSeq(s, 1, Len(s) - 1)) ELSE s

strip(s) == RStrip(LStrip(s))

Digits == {"0", "1", "2", "3", "4", "5", "6", "7", "8", "9"}
DigitVal(c) == CHOOSE n \in 0..9 : ToString(n) = c

\* float(value) succeeds on a non-empty run of decimal digits (the only
\* numeric literals among the modelled entries) and raises ValueError
\* otherwise.
IsFloatLiteral(s) == s # <<>> /\ \A i \in 1..Len(s) : s[i] \in Digits

RECURSIVE FloatOf(_)
FloatOf(s) ==
    IF s = <<>> THEN 0 ELSE 10 * FloatOf(SubSeq(s, 1, Len(s) - 1)) + DigitVal(s[Len(s)])

\* A Python value: a float/int (num) or a str (str), tagged by type.
NumValue(t, n) == [type |-> t, num |-> n, str |-> <<>>]
StrValue(s) == [type |-> "str", num |-> 0, str |-> s]

\* try: float(value)  except ValueError: value
Coerce(value) ==
    IF IsFloatLiteral(value) THEN NumValue("float", FloatOf(value)) ELSE StrValue(value)

\* What the user may have typed into feature_entry.
RawEntries ==
    { <<>>, <<" ">>, <<" ", "7">>, <<"h", " ">> }

\* ---------------------------------------------------------- feature setup
all_features_source ==
    << "Target", "DockingScorekcalmol",
       "ADMETHighlights1ADMETpasses0ADMETnotpasses",
       "MWgmol", "LogP", "TPSA", "HBD", "HBA",
       "RotB", "AromaticRings", "MR", "PlantSource" >>

\* all_features, with only the first NumFeatures descriptors kept.
all_features ==
    <<all_features_source[1]>>
        \o SubSeq(all_features_source, 2, 1 + NumFeatures)
        \o <<all_features_source[Len(all_features_source)]>>

excluded == {"Target", "PlantSource"}

NotExcluded(f) == f \notin excluded
input_features == SelectSeq(all_features, NotExcluded)

\* ------------------------------------------------------ dict (ordered map)
\* A Python dict is a sequence of <<key, value>> pairs in insertion order.
Keys(d) == [i \in 1..Len(d) |-> d[i][1]]
KeySet(d) == {d[i][1] : i \in 1..Len(d)}
Get(d, k) == d[CHOOSE i \in 1..Len(d) : d[i][1] = k][2]

\* d[k] = v: an existing key keeps its position, a new key goes last.
DictSet(d, k, v) ==
    IF k \in KeySet(d)
    THEN [i \in 1..Len(d) |-> IF d[i][1] = k THEN <<k, v>> ELSE d[i]]
    ELSE Append(d, <<k, v>>)

\* A slip: the key is removed and inserted again, so it moves to the end.
RecordValueReinsert(d, k, v) ==
    Append(SelectSeq(d, LAMBDA kv : kv[1] # k), <<k, v>>)

\* user_inputs[feature_name] = ... in handle_next_feature
RecordValue(d, k, v) == DictSet(d, k, v)

\* DataFrame.copy() followed by one column assignment per pair of cols.
RECURSIVE WithColumns(_, _)
WithColumns(d, cols) ==
    IF cols = <<>> THEN d
    ELSE WithColumns(DictSet(d, Head(cols)[1], Head(cols)[2]), Tail(cols))

\* ------------------------------------------------------------- the models
Probs == 0..ProbScale

\* predict_proba(input_df)[0][1] of an opaque model: it raises, or returns
\* the positive-class probability p / ProbScale.
ModelReturns ==
    {[raises |-> TRUE, p |-> 0]} \cup {[raises |-> FALSE, p |-> k] : k \in Probs}

\* A slip: the tie at 0.5 goes to the other class.
ClassOfStrict(prob) == IF 2 * prob > ProbScale THEN "ANTI-ANGIOGENIC" ELSE "PRO-ANGIOGENIC"

\* "ANTI-ANGIOGENIC" if prob >= 0.5 else "PRO-ANGIOGENIC"
ClassOf(prob) == IF 2 * prob >= ProbScale THEN "ANTI-ANGIOGENIC" ELSE "PRO-ANGIOGENIC"

\* f"{prob:.4f}": the probability rounded to a multiple of 1/10000.
Format4f(prob) == (2 * 10000 * prob + ProbScale) \div (2 * ProbScale)

\* --------------------------------------------------------------- the file
\* GUIResults.csv: whether it exists and its lines.  A line is recorded by
\* its kind and its ordered column names; the cell values are not kept.
AbsentFile == [exists |-> FALSE, lines |-> <<>>]
EmptyFile == [exists |-> TRUE, lines |-> <<>>]
HeaderLine(df) == [kind |-> "header", fields |-> Keys(df)]
DataLine(df) == [kind |-> "row", fields |-> Keys(df)]

\* os.path.isfile("GUIResults.csv")
isfile(f) == f.exists

\* DataFrame.to_csv(path, mode='a', header=header, index=False), completed.
to_csv(f, df, header) ==
    [exists |-> TRUE,
     lines |-> f.lines \o (IF header THEN <<HeaderLine(df)>> ELSE <<>>) \o <<DataLine(df)>>]

\* How the append can end: it completes, open() fails and nothing changes,
\* or open() creates/opens the file and the write fails before any line
\* reaches it.
IOOutcomes == {"ok", "open_fails", "write_fails"}

to_csv_failed(f, io) == IF io = "write_fails" THEN [f EXCEPT !.exists = TRUE] ELSE f

\* The log a previous run of this program leaves behind: header and one row.
LogColumns ==
    input_features \o <<"Target", "PlantSource", "Phytochemical",
                        "ML_Prob", "Hybrid_Prob", "ML_Pred", "Hybrid_Pred">>
EarlierLog ==
    [exists |-> TRUE,
     lines |-> << [kind |-> "header", fields |-> LogColumns],
                  [kind |-> "row", fields |-> LogColumns] >>]

\* ------------------------------------------------------------------ state
VARIABLES
    user_inputs,          \* dict: feature name -> value
    current_index,        \* index of the feature being asked
    feature_entry,        \* text of the entry widget
    top_frame,            \* the frame raised last
    prompt,               \* progress_label / feature_label / progress_bar
    tree,                 \* rows of the summary Treeview
    ml_result_label,      \* text of the ML result label
    hybrid_result_label,  \* text of the hybrid result label
    csv,                  \* GUIResults.csv
    input_df,             \* run_prediction's local: the DataFrame handed to the models
    result_row,           \* run_prediction's local: the row built for the log
    op,                   \* the callback that ran last
    outcome,              \* how it ended: ok, a warning, or the exception
    attempt,              \* run_prediction since the last start_input
    entered               \* features recorded since start_input/edit_inputs

vars ==
    << user_inputs, current_index, feature_entry, top_frame, prompt, tree,
       ml_result_label, hybrid_result_label, csv, input_df, result_row,
       op, outcome, attempt, entered >>

NoLabel == [class |-> "", P |-> 0]

Init ==
    /\ user_inputs = <<>>
    /\ current_index = 0
    /\ feature_entry = <<>>
    /\ top_frame = "welcome_frame"
    /\ prompt = [step |-> 0, feature |-> ""]
    /\ tree = <<>>
    /\ ml_result_label = NoLabel
    /\ hybrid_result_label = NoLabel
    /\ csv \in {AbsentFile, EmptyFile, EarlierLog}
    /\ input_df = <<>>
    /\ result_row = <<>>
    /\ op = "none"
    /\ outcome = "ok"
    /\ attempt = "none"
    /\ entered = {}

show_frame(frame) == top_frame' = frame

\* input_df and result_row are locals of run_prediction: they hold a value
\* in the state run_prediction leaves and are gone once another callback runs.
NoLocals == input_df' = <<>> /\ result_row' = <<>>

\* ------------------------------------------------------------ input frame
\* Line 178 indexes input_features[idx]; an index past the end raises
\* IndexError before any widget is touched.
update_feature_prompt(idx) ==
    IF idx < Len(input_features)
    THEN prompt' = [step |-> idx + 1, feature |-> input_features[idx + 1]]
    ELSE prompt' = prompt

PromptRaises(idx) == ~(idx < Len(input_features))

\* A slip: the entry is compared without strip().
IsBlankUnstripped(entry) == entry = <<>>

\* value = feature_entry.get().strip();  value == ""
IsBlank(entry) == strip(entry) = <<>>

\* Slips: the comparison is off by one, either way.
MoreFeaturesEarly(idx) == idx + 1 < Len(input_features)
MoreFeaturesLate(idx) == idx <= Len(input_features)

\* current_index < len(input_features), after the increment
MoreFeatures(idx) == idx < Len(input_features)

build_summary(d) == tree' = d

handle_next_feature ==
    /\ top_frame = "input_frame"
    /\ op' = "handle_next_feature"
    /\ NoLocals
    /\ UNCHANGED <<ml_result_label, hybrid_result_label, csv, attempt>>
    /\ LET value == strip(feature_entry) IN
       IF IsBlank(feature_entry)
       THEN /\ outcome' = "MissingInput"
            /\ UNCHANGED <<user_inputs, current_index, feature_entry,
                           top_frame, prompt, tree, entered>>
       ELSE IF ~(current_index < Len(input_features))
       THEN /\ outcome' = "IndexError"
            /\ UNCHANGED <<user_inputs, current_index, feature_entry,
                           top_frame, prompt, tree, entered>>
       ELSE /\ user_inputs' =
                 RecordValue(user_inputs, input_features[current_index + 1], Coerce(value))
            /\ entered' = entered \cup {input_features[current_index + 1]}
            /\ feature_entry' = <<>>
            /\ current_index' = current_index + 1
            /\ outcome' = "ok"
            /\ IF MoreFeatures(current_index')
               THEN /\ update_feature_prompt(current_index')
                    /\ UNCHANGED <<top_frame, tree>>
               ELSE /\ build_summary(user_inputs')
                    /\ show_frame("summary_frame")
                    /\ UNCHANGED prompt

\* The user edits the text of feature_entry.
type_entry(raw) ==
    /\ top_frame = "input_frame"
    /\ feature_entry' = raw
    /\ op' = "type_entry"
    /\ outcome' = "ok"
    /\ NoLocals
    /\ UNCHANGED <<user_inputs, current_index, top_frame, prompt, tree,
                   ml_result_label, hybrid_result_label, csv, attempt, entered>>

\* A slip: the recorded values are not cleared.
start_input_no_clear ==
    /\ current_index' = 0
    /\ user_inputs' = user_inputs
    /\ feature_entry' = <<>>
    /\ update_feature_prompt(0)
    /\ outcome' = IF PromptRaises(0) THEN "IndexError" ELSE "ok"
    /\ attempt' = "none"
    /\ entered' = {}

start_input ==
    /\ current_index' = 0
    /\ user_inputs' = <<>>
    /\ feature_entry' = <<>>
    /\ update_feature_prompt(0)
    /\ outcome' = IF PromptRaises(0) THEN "IndexError" ELSE "ok"
    /\ attempt' = "none"
    /\ entered' = {}

start_btn ==
    /\ top_frame = "welcome_frame"
    /\ op' = "start_btn"
    /\ show_frame("input_frame")
    /\ start_input
    /\ NoLocals
    /\ UNCHANGED <<tree, ml_result_label, hybrid_result_label, csv>>

\* ---------------------------------------------------------- summary frame
\* A slip: user_inputs is rebound to a new dict holding only the autofill.
AutofillFresh(d) ==
    << <<"Target", NumValue("int", 0 - 2)>>,
       <<"PlantSource", StrValue(Unknown)>>,
       <<"Phytochemical", StrValue(Unknown)>> >>

\* user_inputs['Target'] = -2, ['PlantSource'] = "Unknown",
\* ['Phytochemical'] = "Unknown"
Autofill(d) ==
    DictSet(DictSet(DictSet(d, "Target", NumValue("int", 0 - 2)),
                    "PlantSource", StrValue(Unknown)),
            "Phytochemical", StrValue(Unknown))

\* run_prediction with the two models returning ml and hy and the append
\* ending as io.  A raise leaves the later statements undone.
run_prediction(ml, hy, io) ==
    LET df == Autofill(user_inputs)
        ml_prob == ml.p
        hybrid_prob == hy.p
        ml_class == ClassOf(ml_prob)
        hy_class == ClassOf(hybrid_prob)
        row == WithColumns(df, << <<"ML_Prob", NumValue("float", ml_prob)>>,
                                  <<"Hybrid_Prob", NumValue("float", hybrid_prob)>>,
                                  <<"ML_Pred", StrValue(<<ml_class>>)>>,
                                  <<"Hybrid_Pred", StrValue(<<hy_class>>)>> >>)
        file_exists == isfile(csv)
    IN  /\ user_inputs' = df
        /\ input_df' = df
        /\ IF ml.raises \/ hy.raises
           THEN /\ outcome' = "ModelError"
                /\ attempt' = "failed"
                /\ result_row' = <<>>
                /\ UNCHANGED <<ml_result_label, hybrid_result_label, csv>>
           ELSE /\ ml_result_label' = [class |-> ml_class, P |-> Format4f(ml_prob)]
                /\ hybrid_result_label' = [class |-> hy_class, P |-> Format4f(hybrid_prob)]
                /\ result_row' = row
                /\ IF io = "ok"
                   THEN /\ csv' = to_csv(csv, row, ~file_exists)
                        /\ outcome' = "ok"
                        /\ attempt' = "ok"
                   ELSE /\ csv' = to_csv_failed(csv, io)
                        /\ outcome' = "OSError"
                        /\ attempt' = "failed"

confirm_and_predict(ml, hy, io) ==
    /\ top_frame = "summary_frame"
    /\ op' = "confirm_and_predict"
    /\ run_prediction(ml, hy, io)
    /\ IF outcome' = "ok" THEN show_frame("result_frame") ELSE UNCHANGED top_frame
    /\ UNCHANGED <<current_index, feature_entry, prompt, tree, entered>>

\* A slip: current_index is not set back to 0.
edit_inputs_keeps_index ==
    /\ top_frame = "summary_frame"
    /\ op' = "edit_inputs"
    /\ current_index' = current_index
    /\ entered' = {}
    /\ feature_entry' = <<>>
    /\ show_frame("input_frame")
    /\ update_feature_prompt(current_index)
    /\ outcome' = IF PromptRaises(current_index) THEN "IndexError" ELSE "ok"
    /\ NoLocals
    /\ UNCHANGED <<user_inputs, tree, ml_result_label, hybrid_result_label,
                   csv, attempt>>

edit_inputs ==
    /\ top_frame = "summary_frame"
    /\ op' = "edit_inputs"
    /\ current_index' = 0
    /\ entered' = {}
    /\ feature_entry' = <<>>
    /\ show_frame("input_frame")
    /\ update_feature_prompt(0)
    /\ outcome' = IF PromptRaises(0) THEN "IndexError" ELSE "ok"
    /\ NoLocals
    /\ UNCHANGED <<user_inputs, tree, ml_result_label, hybrid_result_label,
                   csv, attempt>>

\* ----------------------------------------------------------- result frame
restart_btn ==
    /\ top_frame = "result_frame"
    /\ op' = "restart_btn"
    /\ show_frame("input_frame")
    /\ start_input
    /\ NoLocals
    /\ UNCHANGED <<tree, ml_result_label, hybrid_result_label, csv>>

\* root.destroy: the window is gone and no callback runs any more.
exit_btn ==
    /\ top_frame = "result_frame"
    /\ op' = "exit_btn"
    /\ outcome' = "ok"
    /\ top_frame' = "destroyed"
    /\ NoLocals
    /\ UNCHANGED <<user_inputs, current_index, feature_entry, prompt, tree,
                   ml_result_label, hybrid_result_label, csv, attempt, entered>>

\* ---------------------------------------------------------- specification
TypeEntry == \E raw \in RawEntries : type_entry(raw)

\* The log is kept to MaxLines lines: a further append does not complete.
ConfirmAndPredict ==
    \E ml \in ModelReturns, hy \in ModelReturns, io \in IOOutcomes :
        /\ (io = "ok" => Len(csv.lines) < MaxLines)
        /\ confirm_and_predict(ml, hy, io)

Next ==
    \/ start_btn
    \/ TypeEntry
    \/ handle_next_feature
    \/ ConfirmAndPredict
    \/ edit_inputs
    \/ restart_btn
    \/ exit_btn

Spec == Init /\ [][Next]_vars

\* ------------------------------------------------------------ properties
FeatureSet == {input_features[i] : i \in 1..Len(input_features)}
AutofillSet == {"Target", "PlantSource", "Phytochemical"}
AllRecorded == FeatureSet \subseteq KeySet(user_inputs)
Complete == top_frame \notin {"welcome_frame", "input_frame"}
RetriedAfterFailure == "Target" \in KeySet(tree)

\* C1: when a predict_proba call raises during Confirm & Predict, the cycle
\* aborts (the summary stays up), GUIResults.csv is left exactly as it was,
\* and every required feature still has the value the user recorded.
C1_ModelFailureKeepsLogAndInputs ==
    [][ (op' = "confirm_and_predict" /\ outcome' = "ModelError") =>
            /\ csv' = csv
            /\ top_frame' = "summary_frame"
            /\ \A f \in FeatureSet :
                  /\ f \in KeySet(user_inputs')
                  /\ Get(user_inputs', f) = Get(user_inputs, f) ]_vars

C1_Witness ==
    /\ op = "confirm_and_predict"
    /\ outcome = "ModelError"
    /\ top_frame = "summary_frame"
    /\ Get(user_inputs, input_features[1]) = StrValue(<<"h">>)

\* C2: when the append to the log fails after both probabilities were
\* computed, the result view is the one displayed after Confirm & Predict.
C2_ResultShownDespiteIOError ==
    (op = "confirm_and_predict" /\ outcome = "OSError") => top_frame = "result_frame"

\* C3: a log that has any content starts with its one header line and holds
\* only data rows after it (the first append to a log without content
\* writes header then row, every later one a single row).
C3_HeaderWriteOnce ==
    csv.lines # <<>> =>
        /\ csv.lines[1].kind = "header"
        /\ \A i \in 2..Len(csv.lines) : csv.lines[i].kind = "row"

\* C4: every line of the log, header or row, lists the input features in
\* schema order, then Target, PlantSource, Phytochemical, then ML_Prob,
\* Hybrid_Prob, ML_Pred, Hybrid_Pred, whatever wizard operations came before.
C4_RowsMatchHeader ==
    \A i \in 1..Len(csv.lines) :
        csv.lines[i].fields =
            input_features \o <<"Target", "PlantSource", "Phytochemical">>
                \o <<"ML_Prob", "Hybrid_Prob", "ML_Pred", "Hybrid_Pred">>

C4_Witness ==
    /\ op = "confirm_and_predict"
    /\ outcome = "ok"
    /\ RetriedAfterFailure
    /\ Len(csv.lines) >= 2
    /\ csv.lines[Len(csv.lines)].kind = "row"

\* C5: the record handed to the models has exactly len(input_features) + 3
\* entries: one per required feature, and Target = -2, PlantSource =
\* "Unknown", Phytochemical = "Unknown".
C5_RecordShape ==
    op = "confirm_and_predict" =>
        /\ Len(input_df) = Len(input_features) + 3
        /\ Cardinality(KeySet(input_df)) = Len(input_df)
        /\ KeySet(input_df) = FeatureSet \cup AutofillSet
        /\ Get(input_df, "Target") = [type |-> "int", num |-> 0 - 2, str |-> <<>>]
        /\ Get(input_df, "PlantSource") = [type |-> "str", num |-> 0, str |-> <<"Unknown">>]
        /\ Get(input_df, "Phytochemical") = [type |-> "str", num |-> 0, str |-> <<"Unknown">>]

C5_Witness ==
    /\ op = "confirm_and_predict"
    /\ RetriedAfterFailure
    /\ Len(input_df) = Len(input_features) + 3

\* C6 as claimed: the collector is complete iff every required feature has
\* a value recorded since the last start_input.
C6_CompleteIffAllRecorded == Complete <=> AllRecorded

\* C6 amended: the collector is complete iff every required feature has had
\* a value recorded since the last start_input or edit_inputs, that is iff
\* current_index = len(input_features); and when it is complete every
\* required feature has a value recorded since the last start_input.
C6_CompleteIffAllEntered ==
    /\ Complete <=> entered = FeatureSet
    /\ Complete <=> current_index = Len(input_features)
    /\ Complete => AllRecorded

C6_Witness ==
    /\ top_frame = "summary_frame"
    /\ op = "handle_next_feature"
    /\ RetriedAfterFailure
    /\ entered = FeatureSet

\* C7 as claimed: run_prediction never runs twice without a start_input in
\* between.
C7_ResetBetweenAttempts ==
    [][ op' = "confirm_and_predict" => attempt = "none" ]_vars

\* C7 amended: after a prediction that succeeded, run_prediction does not
\* run again before start_input has cleared user_inputs and set
\* current_index to 0; after one that failed it may run again with no reset.
C7_ResetAfterSuccess ==
    [][ /\ (op' = "confirm_and_predict" => attempt # "ok")
        /\ (attempt = "ok" /\ attempt' # "ok" =>
                user_inputs' = <<>> /\ current_index' = 0) ]_vars

C7_Witness ==
    /\ op = "restart_btn"
    /\ attempt = "none"
    /\ user_inputs = <<>>
    /\ current_index = 0
    /\ ml_result_label # NoLabel

\* C8: Next with an entry that is empty after trimming only warns: the
\* recorded values, the index, the frame, the prompt, the entry, the log and
\* the result labels are unchanged and no record is built.
C8_BlankEntryChangesNothing ==
    [][ (op' = "handle_next_feature" /\ strip(feature_entry) = <<>>) =>
            /\ outcome' = "MissingInput"
            /\ input_df' = <<>>
            /\ result_row' = <<>>
            /\ UNCHANGED <<user_inputs, current_index, feature_entry, top_frame,
                           prompt, tree, ml_result_label, hybrid_result_label,
                           csv, attempt>> ]_vars

C8_Witness ==
    /\ op = "handle_next_feature"
    /\ outcome = "MissingInput"
    /\ feature_entry = <<" ">>
    /\ current_index = 1

\* C9: in the row built for the log and on the result labels, each model's
\* class is ANTI-ANGIOGENIC exactly when that model's own probability is at
\* least 0.5, and PRO-ANGIOGENIC otherwise.
C9_LabelFromOwnProbability ==
    result_row # <<>> =>
        LET ml == Get(result_row, "ML_Prob").num
            hy == Get(result_row, "Hybrid_Prob").num
            LabelIs(c, p) ==
                /\ c \in {"ANTI-ANGIOGENIC", "PRO-ANGIOGENIC"}
                /\ c = "ANTI-ANGIOGENIC" <=> p + p >= ProbScale
        IN  /\ ml \in Probs /\ hy \in Probs
            /\ LabelIs(Get(result_row, "ML_Pred").str[1], ml)
            /\ LabelIs(Get(result_row, "Hybrid_Pred").str[1], hy)
            /\ LabelIs(ml_result_label.class, ml)
            /\ LabelIs(hybrid_result_label.class, hy)

C9_Witness ==
    /\ result_row # <<>>
    /\ 2 * Get(result_row, "ML_Prob").num = ProbScale
    /\ Get(result_row, "ML_Pred").str = <<"ANTI-ANGIOGENIC">>
    /\ 2 * Get(result_row, "Hybrid_Prob").num < ProbScale
    /\ Get(result_row, "Hybrid_Pred").str = <<"PRO-ANGIOGENIC">>

\* C10: current_index stays within 0..len(input_features); it is below
\* len(input_features) while the input view is up, where the prompt shows
\* input_features[current_index]; it equals len(input_features) only once
\* the input view has been left; and no IndexError is ever raised.
C10_IndexInRange ==
    /\ current_index \in 0..Len(input_features)
    /\ top_frame = "input_frame" =>
          /\ current_index < Len(input_features)
          /\ prompt.feature = input_features[current_index + 1]
    /\ current_index = Len(input_features) =>
          top_frame \in {"summary_frame", "result_frame", "destroyed"}
    /\ outcome # "IndexError"

C10_Witness ==
    /\ top_frame = "input_frame"
    /\ op = "handle_next_feature"
    /\ outcome = "ok"
    /\ current_index = Len(input_features) - 1
    /\ AllRecorded

====
